---- MODULE Spec2Model ----
(***************************************************************************)
(* FAST corner detector of cv-detectors-rs (src/src/fast.rs).              *)
(*                                                                         *)
(* Sequences are 1-based here and 0-based in the source: the source index  *)
(* i of a Vec is index i + 1 of the sequence that models it.               *)
(***************************************************************************)
EXTENDS Integers, Sequences, FiniteSets, TLC

VARIABLES
  img,                \* the caller's GrayImage
  background,         \* the value the caller filled the image with
  params,             \* FASTDetector.params
  features,           \* the caller's Vec<ImgCoords>
  status,             \* how the call ended: "none", "ok" or a panic
  pc,                 \* "setup", "done" (detect returned) or "tested"
  initial,            \* features when detect was called
  pre,                \* features when the scan ended, before suppression
  indices_to_remove,  \* of the suppression pass
  comparisons,        \* the comparisons the suppression pass made
  tested              \* results of the two per-pixel tests

vars == <<img, background, params, features, status, pc,
          initial, pre, indices_to_remove, comparisons, tested>>

\* ------------------------------------------------------------------ bounds
\* number of caller-side preparation steps (writes to the public params,
\* pixels put into the image, entries pushed into the container) before detect
MaxSetup == 3
\* number of ring pixels of the single-pixel image that differ from its base
MaxRingPuts == 2

\* ------------------------------------------------------------- input sets
Sizes == {<<2, 7>>, <<7, 2>>, <<5, 2>>, <<6, 6>>, <<9, 8>>}
Backgrounds == {100}
PutCoords == {<<3, 3>>, <<4, 3>>, <<5, 3>>, <<4, 4>>, <<0, 3>>}
PutVals == {120, 130, 140}
PreCoords == {<<3, 3>>, <<4, 4>>, <<2, 2>>}
ArcLengths == {0, 12, 16, 17}
Thresholds == {10}

PixelCentre == [x |-> 3, y |-> 3]
RingBases == {50, 100, 150}
RingVals == {50, 100, 150}
\* <<threshold, min_contig_neighbors>>: every arc length at the default
\* threshold, and the arc length of the high-speed test at other thresholds
PixelParams == ({10} \X (1..16)) \cup ({0, 49, 50} \X {12})

\* ------------------------------------------------------------------ image
\* GrayImage: width, height and one u8 sample per (x, y)
UniformImage(w, h, v) ==
  [width |-> w, height |-> h,
   data |-> [c \in (0..(w - 1)) \X (0..(h - 1)) |-> v]]

InImage(image, x, y) ==
  x >= 0 /\ x < image.width /\ y >= 0 /\ y < image.height

get_pixel(image, x, y) == image.data[<<x, y>>]

put_pixel(image, x, y, v) == [image EXCEPT !.data[<<x, y>>] = v]

\* ------------------------------------------------------------- parameters
DefaultParams ==
  [threshold |-> 10, min_contig_neighbors |-> 12,
   do_high_speed_test |-> TRUE, do_nonmax_suppression |-> TRUE]

NEIGHBOR_RELATIVE_COORDS ==
  << <<0, -3>>, <<1, -3>>, <<2, -2>>, <<3, -1>>,
     <<3, 0>>, <<3, 1>>, <<2, 2>>, <<1, 3>>,
     <<0, 3>>, <<-1, 3>>, <<-2, 2>>, <<-3, 1>>,
     <<-3, 0>>, <<-3, -1>>, <<-2, -2>>, <<-1, -3>> >>

\* ------------------------------------------------------- pixel classifier
is_black(p, pix_p, pix_x) == pix_x + p.threshold < pix_p

is_white(p, pix_p, pix_x) == pix_x - p.threshold > pix_p

within_bounds(p, pix_p, pix_x) ==
  ~is_black(p, pix_p, pix_x) /\ ~is_white(p, pix_p, pix_x)

\* ---------------------------------------------------------- high-speed test
high_speed_test(p, image, coords) ==
  LET c == get_pixel(image, coords.x, coords.y)
      up == get_pixel(image, coords.x, coords.y - 3)
      right == get_pixel(image, coords.x + 3, coords.y)
      down == get_pixel(image, coords.x, coords.y + 3)
      left == get_pixel(image, coords.x - 3, coords.y)
  IN  IF within_bounds(p, c, up) /\ within_bounds(p, c, down) THEN FALSE
      ELSE IF is_black(p, c, up) /\ is_black(p, c, down)
        THEN is_black(p, c, right) \/ is_black(p, c, left)
      ELSE IF is_white(p, c, up) /\ is_white(p, c, down)
        THEN is_white(p, c, right) \/ is_white(p, c, left)
      ELSE IF is_black(p, c, up) \/ is_black(p, c, down)
        THEN is_black(p, c, right) /\ is_black(p, c, left)
      ELSE IF is_white(p, c, up) \/ is_white(p, c, down)
        THEN is_white(p, c, right) /\ is_white(p, c, left)
      ELSE FALSE

\* ------------------------------------------------------------ full arc test
neighbor_vals(image, coords) ==
  [k \in 1..16 |->
     get_pixel(image, coords.x + NEIGHBOR_RELATIVE_COORDS[k][1],
                      coords.y + NEIGHBOR_RELATIVE_COORDS[k][2])]

neighbor_tags(p, vals, central_pixel_val) ==
  [k \in 1..Len(vals) |->
     IF is_black(p, central_pixel_val, vals[k]) THEN "Black"
     ELSE IF is_white(p, central_pixel_val, vals[k]) THEN "White"
     ELSE "InBounds"]

\* the tag sequence after the first extend (line 140): 16 + N entries
TagsExtendedOnce(p, tags) ==
  tags \o SubSeq(tags, 1, p.min_contig_neighbors)

\* neighbor_tags_extended (lines 141-143): 16 + 2N entries
TagsExtendedTwice(p, tags) ==
  TagsExtendedOnce(p, tags)
    \o SubSeq(TagsExtendedOnce(p, tags), 1, p.min_contig_neighbors)

\* the slice [..N] of a 16-entry Vec panics when N > 16
check_pixel_panics(p) == p.min_contig_neighbors > 16

check_pixel_no_wrap(p, image, coords) ==
  LET n == p.min_contig_neighbors
      c == get_pixel(image, coords.x, coords.y)
      tags == neighbor_tags(p, neighbor_vals(image, coords), c)
  IN  \E i \in 0..(16 - n) : \E mask \in {"Black", "White"} :
        \A k \in 1..n : tags[i + k] = mask

check_pixel(p, image, coords) ==
  LET n == p.min_contig_neighbors
      c == get_pixel(image, coords.x, coords.y)
      tags == neighbor_tags(p, neighbor_vals(image, coords), c)
      once == TagsExtendedOnce(p, tags)
      twice == TagsExtendedTwice(p, tags)
  IN  \E i \in 0..(Len(once) - 1) : \E mask \in {"Black", "White"} :
        SubSeq(twice, i + 1, i + n) = [k \in 1..n |-> mask]

\* ------------------------------------------------------------------- score
\* every pixel access of neighbor_vals and of the centre read stays inside
\* the image (get_pixel panics otherwise; a negative i64 cast to u32 is huge)
RingInImage(image, coords) ==
  /\ InImage(image, coords.x, coords.y)
  /\ \A k \in 1..16 :
       InImage(image, coords.x + NEIGHBOR_RELATIVE_COORDS[k][1],
                      coords.y + NEIGHBOR_RELATIVE_COORDS[k][2])

Abs(n) == IF n < 0 THEN -n ELSE n

Max(a, b) == IF a >= b THEN a ELSE b

RECURSIVE SumOver(_, _)
SumOver(f, S) ==
  IF S = {} THEN 0
  ELSE LET k == CHOOSE k \in S : TRUE
       IN  f[k] + SumOver(f, S \ {k})

get_score(p, image, coords) ==
  LET c == get_pixel(image, coords.x, coords.y)
      vals == neighbor_vals(image, coords)
      tags == neighbor_tags(p, vals, c)
      diff == [k \in 1..16 |-> Abs(vals[k] - c) - p.threshold]
      sum_black == SumOver(diff, {k \in 1..16 : tags[k] = "Black"})
      sum_white == SumOver(diff, {k \in 1..16 : tags[k] = "White"})
  IN  Max(sum_black, sum_white)

\* --------------------------------------------------- non-maximum suppression
Contains(seq, v) == \E k \in 1..Len(seq) : seq[k] = v

\* "neighbors?" (lines 201-205)
Adjacent_4connected(a, b) == Abs(b.x - a.x) + Abs(b.y - a.y) <= 1

Adjacent(a, b) == Abs(b.x - a.x) <= 1 /\ Abs(b.y - a.y) <= 1

\* "skip if already marked as remove" (line 194)
already_marked_never(marks, idx2) == FALSE

already_marked(marks, idx2) == Contains(marks, idx2)

\* "if remove idx1" (line 212)
remove_idx1_strict(score1, score2) == score1 < score2

remove_idx1_flipped(score1, score2) == score1 >= score2

remove_idx1(score1, score2) == score1 <= score2

\* features.retain(..) with the running index i (lines 223-224)
Retain_shifted(feats, marks) ==
  LET F[k \in 0..Len(feats)] ==
        IF k = 0 THEN <<>>
        ELSE IF ~Contains(marks, k + 1) THEN Append(F[k - 1], feats[k])
        ELSE F[k - 1]
  IN  F[Len(feats)]

Retain(feats, marks) ==
  LET F[k \in 0..Len(feats)] ==
        IF k = 0 THEN <<>>
        ELSE IF ~Contains(marks, k) THEN Append(F[k - 1], feats[k])
        ELSE F[k - 1]
  IN  F[Len(feats)]

\* one comparison of the pass: source idx, target idx2, both scores, the index
\* pushed to indices_to_remove, and whether source and target were in it already
Comparison(idx, idx2, s1, s2, pushed, marks) ==
  [src |-> idx, tgt |-> idx2, score1 |-> s1, score2 |-> s2, marked |-> pushed,
   src_marked |-> Contains(marks, idx), tgt_marked |-> Contains(marks, idx2)]

\* the two nested loops of lines 190-220; st carries indices_to_remove
\* (marks), the comparisons made so far and the panic status
RECURSIVE nms_loop(_, _, _, _, _, _)
nms_loop(p, image, feats, idx, idx2, st) ==
  IF idx > Len(feats) THEN st
  ELSE IF idx2 > Len(feats) THEN nms_loop(p, image, feats, idx + 1, idx + 2, st)
  ELSE IF already_marked(st.marks, idx2)
    THEN nms_loop(p, image, feats, idx, idx2 + 1, st)
  ELSE IF ~Adjacent(feats[idx], feats[idx2])
    THEN nms_loop(p, image, feats, idx, idx2 + 1, st)
  ELSE IF ~RingInImage(image, feats[idx]) \/ ~RingInImage(image, feats[idx2])
    THEN [st EXCEPT !.status = "panic_oob"]
  ELSE
    LET score1 == get_score(p, image, feats[idx])
        score2 == get_score(p, image, feats[idx2])
    IN  IF remove_idx1(score1, score2)
          THEN nms_loop(p, image, feats, idx + 1, idx + 2,
                 [st EXCEPT
                    !.marks = Append(@, idx),
                    !.log = Append(@, Comparison(idx, idx2, score1, score2,
                                                 idx, st.marks))])
          ELSE nms_loop(p, image, feats, idx, idx2 + 1,
                 [st EXCEPT
                    !.marks = Append(@, idx2),
                    !.log = Append(@, Comparison(idx, idx2, score1, score2,
                                                 idx2, st.marks))])

nonmax_suppression(p, image, feats) ==
  LET st == nms_loop(p, image, feats, 1, 2,
                     [marks |-> <<>>, log |-> <<>>, status |-> "ok"])
  IN  [features |-> IF st.status = "ok" THEN Retain(feats, st.marks) ELSE feats,
       marks |-> st.marks, log |-> st.log, status |-> st.status]

\* ------------------------------------------------------------------ detect
\* the raster scan of lines 244-260 from (col, row) on; acc carries the
\* features pushed so far and the panic status
RECURSIVE scan(_, _, _, _, _, _, _)
scan(p, image, row, col, rowEnd, colEnd, acc) ==
  IF row >= rowEnd THEN acc
  ELSE IF col >= colEnd THEN scan(p, image, row + 1, 3, rowEnd, colEnd, acc)
  ELSE
    LET coords == [x |-> col, y |-> row]
    IN  IF ~RingInImage(image, coords)
          THEN [acc EXCEPT !.status = "panic_oob"]
        ELSE IF /\ p.do_high_speed_test
                /\ p.min_contig_neighbors = 12
                /\ ~high_speed_test(p, image, coords)
          THEN scan(p, image, row, col + 1, rowEnd, colEnd, acc)
        ELSE IF check_pixel_panics(p)
          THEN [acc EXCEPT !.status = "panic_slice"]
        ELSE IF check_pixel(p, image, coords)
          THEN scan(p, image, row, col + 1, rowEnd, colEnd,
                    [acc EXCEPT !.features = Append(@, coords)])
        ELSE scan(p, image, row, col + 1, rowEnd, colEnd, acc)

\* u32 subtraction n - 3, which wraps when the build has no overflow checks.
\* The source wraps modulo 2^32; TLC's integers stop below 2^31, so
\* the wrap is taken modulo 2^30. The scan only compares the result with row
\* and column numbers, and either value lies beyond every image of the model.
WrappingSub3(n) == (n - 3) % (2 ^ 30)

\* overflow_checks: whether the build panics on integer overflow (debug) or
\* wraps (release); the two outcomes of height - 3 and width - 3 below 3
detect(p, image, feats, overflow_checks) ==
  LET start == [features |-> feats, status |-> "ok"]
      rowEnd == WrappingSub3(image.height)
      colEnd == WrappingSub3(image.width)
      scanned ==
        IF image.height < 3 /\ overflow_checks
          THEN [start EXCEPT !.status = "panic_overflow"]
        ELSE IF rowEnd <= 3 THEN start
        ELSE IF image.width < 3 /\ overflow_checks
          THEN [start EXCEPT !.status = "panic_overflow"]
        ELSE IF colEnd <= 3 THEN start
        ELSE scan(p, image, 3, 3, rowEnd, colEnd, start)
      nms == nonmax_suppression(p, image, scanned.features)
  IN  IF scanned.status = "ok" /\ p.do_nonmax_suppression
        THEN [features |-> nms.features, status |-> nms.status,
              pre |-> scanned.features, marks |-> nms.marks, log |-> nms.log]
        ELSE [features |-> scanned.features, status |-> scanned.status,
              pre |-> scanned.features, marks |-> <<>>, log |-> <<>>]

\* ------------------------------------------------------------ the caller
NotTested == [hst |-> FALSE, chk |-> FALSE]

\* caller-side preparation steps taken so far
SetupSteps ==
  (IF params = DefaultParams THEN 0 ELSE 1)
    + Cardinality({c \in DOMAIN img.data : img.data[c] # background})
    + Len(features)

\* FASTDetector::new() and an image and an empty container of the caller
Init ==
  /\ background \in Backgrounds
  /\ img \in {UniformImage(s[1], s[2], background) : s \in Sizes}
  /\ params = DefaultParams
  /\ features = <<>>
  /\ status = "none"
  /\ pc = "setup"
  /\ initial = <<>>
  /\ pre = <<>>
  /\ indices_to_remove = <<>>
  /\ comparisons = <<>>
  /\ tested = NotTested

\* the caller writes the public fields of the detector's params
SetParams ==
  /\ pc = "setup"
  /\ params = DefaultParams
  /\ SetupSteps < MaxSetup
  /\ \E t \in Thresholds, n \in ArcLengths, h \in BOOLEAN, s \in BOOLEAN :
       /\ params' = [threshold |-> t, min_contig_neighbors |-> n,
                     do_high_speed_test |-> h, do_nonmax_suppression |-> s]
       /\ params' # params
  /\ UNCHANGED <<img, background, features, status, pc, initial, pre,
                 indices_to_remove, comparisons, tested>>

\* the caller draws one pixel into the image
PutPixel ==
  /\ pc = "setup"
  /\ SetupSteps < MaxSetup
  /\ \E c \in PutCoords, v \in PutVals :
       /\ InImage(img, c[1], c[2])
       /\ get_pixel(img, c[1], c[2]) = background
       /\ img' = put_pixel(img, c[1], c[2], v)
  /\ UNCHANGED <<background, params, features, status, pc, initial, pre,
                 indices_to_remove, comparisons, tested>>

\* the caller passes a container that already holds entries
PushFeature ==
  /\ pc = "setup"
  /\ SetupSteps < MaxSetup
  /\ \E c \in PreCoords :
       features' = Append(features, [x |-> c[1], y |-> c[2]])
  /\ UNCHANGED <<img, background, params, status, pc, initial, pre,
                 indices_to_remove, comparisons, tested>>

\* whether the build checks integer overflow only shows when a dimension is
\* below 3
Builds == IF img.width < 3 \/ img.height < 3 THEN BOOLEAN ELSE {TRUE}

Detect ==
  /\ pc = "setup"
  /\ \E overflow_checks \in Builds :
       LET r == detect(params, img, features, overflow_checks)
       IN  /\ features' = r.features
           /\ status' = r.status
           /\ pre' = r.pre
           /\ indices_to_remove' = r.marks
           /\ comparisons' = r.log
  /\ initial' = features
  /\ pc' = "done"
  /\ UNCHANGED <<img, background, params, tested>>

Next == SetParams \/ PutPixel \/ PushFeature \/ Detect

Spec == Init /\ [][Next]_vars

\* --------------------------------------------- the two tests on one pixel
\* a 7x7 image has the single scanned pixel (3, 3); its ring is the border
RingCoord(k) ==
  <<PixelCentre.x + NEIGHBOR_RELATIVE_COORDS[k][1],
    PixelCentre.y + NEIGHBOR_RELATIVE_COORDS[k][2]>>

RingPuts ==
  Cardinality({k \in 1..16 :
                 get_pixel(img, RingCoord(k)[1], RingCoord(k)[2]) # background})

InitPixel ==
  /\ background \in RingBases
  /\ img = put_pixel(UniformImage(7, 7, background),
                     PixelCentre.x, PixelCentre.y, 100)
  /\ params = DefaultParams
  /\ features = <<>>
  /\ status = "none"
  /\ pc = "setup"
  /\ initial = <<>>
  /\ pre = <<>>
  /\ indices_to_remove = <<>>
  /\ comparisons = <<>>
  /\ tested = NotTested

\* the ring is drawn in ring order, before the detector is configured
PutRing ==
  /\ pc = "setup"
  /\ params = DefaultParams
  /\ RingPuts < MaxRingPuts
  /\ \E k \in 1..16, v \in RingVals :
       /\ \A j \in k..16 :
            get_pixel(img, RingCoord(j)[1], RingCoord(j)[2]) = background
       /\ v # background
       /\ img' = put_pixel(img, RingCoord(k)[1], RingCoord(k)[2], v)
  /\ UNCHANGED <<background, params, features, status, pc, initial, pre,
                 indices_to_remove, comparisons, tested>>

SetPixelParams ==
  /\ pc = "setup"
  /\ params = DefaultParams
  /\ \E tn \in PixelParams :
       /\ params' = [params EXCEPT !.threshold = tn[1],
                                   !.min_contig_neighbors = tn[2]]
       /\ params' # params
  /\ UNCHANGED <<img, background, features, status, pc, initial, pre,
                 indices_to_remove, comparisons, tested>>

TestPixel ==
  /\ pc = "setup"
  /\ tested' = [hst |-> high_speed_test(params, img, PixelCentre),
                chk |-> check_pixel(params, img, PixelCentre)]
  /\ pc' = "tested"
  /\ UNCHANGED <<img, background, params, features, status, initial, pre,
                 indices_to_remove, comparisons>>

NextPixel == PutRing \/ SetPixelParams \/ TestPixel

SpecPixel == InitPixel /\ [][NextPixel]_vars

\* ================================================================= claims
ChebyshevDistance(a, b) == Max(Abs(a.x - b.x), Abs(a.y - b.y))

IsPrefix(a, b) == Len(a) <= Len(b) /\ SubSeq(b, 1, Len(a)) = a

\* the 16 ring tags of the tested pixel, position k being source index k - 1
TestedTags ==
  neighbor_tags(params, neighbor_vals(img, PixelCentre),
                get_pixel(img, PixelCentre.x, PixelCentre.y))

\* a run of n consecutive ring positions, wrapping from 16 to 1, of one class
HasCircularRun(tags, n) ==
  \E start \in 0..15 : \E class \in {"Black", "White"} :
    \A k \in 0..(n - 1) : tags[((start + k) % 16) + 1] = class

\* the suppression pass ran to its end on the list the scan produced
Suppressed ==
  pc = "done" /\ status = "ok" /\ params.do_nonmax_suppression

\* detect was called as documented: arc length within 1..16, an image with
\* at least one scanned pixel, an empty container
ValidCall ==
  /\ params.min_contig_neighbors \in 1..16
  /\ img.width >= 7 /\ img.height >= 7
  /\ initial = <<>>

Scored(k) == RingInImage(img, pre[k])

ScoreOf(k) == get_score(params, img, pre[k])

Survives(k) == ~Contains(indices_to_remove, k)

Compared(i, j) ==
  \E n \in 1..Len(comparisons) :
    {comparisons[n].src, comparisons[n].tgt} = {i, j}

\* C1: with min_contig_neighbors = 12 the high-speed test accepts every pixel
\* that check_pixel accepts, whatever the threshold and the 17 intensities.
C1_PrunerNeverRejectsACorner ==
  (pc = "tested" /\ params.min_contig_neighbors = 12 /\ tested.chk)
    => tested.hst

\* C2: after detect with suppression on an initially empty list, no two
\* distinct entries of the result are within Chebyshev distance 1.
C2_NoTwoSurvivorsAdjacent ==
  (Suppressed /\ initial = <<>>)
    => \A i, j \in 1..Len(features) :
         i # j => ChebyshevDistance(features[i], features[j]) > 1

C2_Witness ==
  /\ Suppressed /\ ValidCall /\ initial = <<>>
  /\ \E i, j, k \in 1..Len(pre) :
       /\ i < j /\ j < k
       /\ ChebyshevDistance(pre[i], pre[j]) <= 1
       /\ ChebyshevDistance(pre[j], pre[k]) <= 1
       /\ ChebyshevDistance(pre[i], pre[k]) <= 1
       /\ ScoreOf(i) = ScoreOf(j) /\ ScoreOf(j) = ScoreOf(k)
       /\ ScoreOf(i) > 0

\* C3 as claimed: a comparison of two equal scores marks the second-encountered
\* feature (the target, the larger index) and not the first. Stated for the
\* documented calls, so that no other defect takes part in its refutation.
C3_TieMarksSecond ==
  ValidCall => \A n \in 1..Len(comparisons) :
    comparisons[n].score1 = comparisons[n].score2
      => /\ comparisons[n].marked = comparisons[n].tgt
         /\ indices_to_remove[n] = comparisons[n].tgt

\* C3 as amended: a comparison of two equal scores marks the first-encountered
\* feature (the source, the smaller index); that comparison does not mark the
\* second one.
C3_TieMarksFirst ==
  /\ Len(indices_to_remove) = Len(comparisons)
  /\ \A n \in 1..Len(comparisons) :
       comparisons[n].score1 = comparisons[n].score2
         => /\ comparisons[n].marked = comparisons[n].src
            /\ indices_to_remove[n] = comparisons[n].src
            /\ comparisons[n].src < comparisons[n].tgt

C3_Witness ==
  /\ Suppressed /\ ValidCall
  /\ \E n \in 1..Len(comparisons) :
       /\ comparisons[n].score1 = comparisons[n].score2
       /\ comparisons[n].score1 > 0
       /\ Survives(comparisons[n].tgt)

\* C4: the entries the container held before detect are a prefix of the
\* container after detect, for every configuration. Stated for arc lengths
\* within 1..16 and entries inside the scanned area, so that no other defect
\* takes part in its refutation.
C4_AppendOnly ==
  (/\ pc = "done" /\ status = "ok"
   /\ params.min_contig_neighbors \in 1..16
   /\ \A k \in 1..Len(initial) : RingInImage(img, initial[k]))
    => IsPrefix(initial, features)

\* C6: detect never runs with min_contig_neighbors 0 or above 16: such a
\* detector is rejected with InvalidParameter.
C6_InvalidArcLengthRejected ==
  pc = "done"
    => \/ params.min_contig_neighbors \in 1..16
       \/ status = "InvalidParameter"

\* C7: on an image narrower or lower than 7, detect reports ImageTooSmall
\* (no normal result, no out-of-range access, no unsigned underflow).
C7_ImageTooSmallReported ==
  (pc = "done" /\ (img.width < 7 \/ img.height < 7))
    => status = "ImageTooSmall"

\* C8 as claimed: no feature survives suppression while an adjacent feature of
\* the pre-suppression list has a strictly higher score. Stated for the
\* documented calls, so that no other defect takes part in its refutation.
C8_NoSurvivorBesideHigherScore ==
  (Suppressed /\ ValidCall)
    => \A i, j \in 1..Len(pre) :
         (/\ i # j /\ Scored(i) /\ Scored(j)
          /\ ChebyshevDistance(pre[i], pre[j]) <= 1
          /\ ScoreOf(i) < ScoreOf(j))
           => ~Survives(i)

\* C8 as amended: every comparison of two different scores marks the
\* lower-scoring feature; a feature survives beside a strictly higher-scoring
\* adjacent feature only if that feature was itself marked for removal and the
\* two were never compared.
C8_ComparedLowerIsMarked ==
  /\ \A n \in 1..Len(comparisons) :
       LET c == comparisons[n]
       IN  /\ c.score1 < c.score2 => c.marked = c.src
           /\ c.score1 > c.score2 => c.marked = c.tgt
  /\ Suppressed
       => \A i, j \in 1..Len(pre) :
            (/\ i # j /\ Scored(i) /\ Scored(j)
             /\ ChebyshevDistance(pre[i], pre[j]) <= 1
             /\ ScoreOf(i) < ScoreOf(j)
             /\ Survives(i))
              => ~Survives(j) /\ ~Compared(i, j)

C8_Witness ==
  /\ Suppressed /\ ValidCall
  /\ \E i, j \in 1..Len(pre) :
       /\ i # j /\ Scored(i) /\ Scored(j)
       /\ ChebyshevDistance(pre[i], pre[j]) <= 1
       /\ ScoreOf(i) < ScoreOf(j)
       /\ Survives(i) /\ ~Survives(j)

\* C9 as claimed: a feature already marked for removal is never the source
\* of a later comparison (and so marks no other feature). Stated for the
\* documented calls, so that no other defect takes part in its refutation.
C9_MarkedNeverSource ==
  ValidCall => \A n \in 1..Len(comparisons) : ~comparisons[n].src_marked

\* C9 as amended: a feature already marked for removal is never the target of
\* a comparison; it is still the source of the comparisons with its later,
\* unmarked, adjacent targets: every adjacent pair i < j is compared unless j
\* was marked before i reached it or i was marked as a source before reaching j.
C9_MarkedNeverTarget ==
  /\ \A n \in 1..Len(comparisons) : ~comparisons[n].tgt_marked
  /\ Suppressed
       => \A i, j \in 1..Len(pre) :
            (i < j /\ ChebyshevDistance(pre[i], pre[j]) <= 1)
              => \/ Compared(i, j)
                 \/ \E n \in 1..Len(comparisons) :
                      /\ comparisons[n].marked = j
                      /\ comparisons[n].src < i
                 \/ \E n \in 1..Len(comparisons) :
                      /\ comparisons[n].src = i
                      /\ comparisons[n].marked = i
                      /\ comparisons[n].tgt < j

C9_Witness ==
  /\ Suppressed /\ ValidCall
  /\ \E n \in 1..Len(comparisons) :
       /\ comparisons[n].src_marked
       /\ comparisons[n].marked = comparisons[n].tgt

\* C10: a feature whose score is strictly greater than the score of every
\* feature adjacent to it is still in the list after suppression.
C10_StrictLocalMaximumSurvives ==
  Suppressed
    => \A i \in 1..Len(pre) :
         (/\ Scored(i)
          /\ \A j \in 1..Len(pre) :
               (j # i /\ ChebyshevDistance(pre[i], pre[j]) <= 1)
                 => Scored(j) /\ ScoreOf(j) < ScoreOf(i))
           => /\ Survives(i)
              /\ \E k \in 1..Len(features) : features[k] = pre[i]

C10_Witness ==
  /\ Suppressed /\ ValidCall
  /\ \E i \in 1..Len(pre) :
       /\ Scored(i)
       /\ \A j \in 1..Len(pre) :
            (j # i /\ ChebyshevDistance(pre[i], pre[j]) <= 1)
              => Scored(j) /\ ScoreOf(j) < ScoreOf(i)
       /\ \E j \in 1..Len(pre) :
            j < i /\ ChebyshevDistance(pre[i], pre[j]) <= 1
       /\ \E j \in 1..Len(pre) : ~Survives(j)
       /\ \E k \in 1..Len(features) : features[k] = pre[i]

\* C5: for every min_contig_neighbors in 1..16, check_pixel accepts exactly
\* when the circular sequence of the 16 ring tags holds a run of at least that
\* many consecutive positions that are all Black or all White.
C5_CheckPixelIsCircularRun ==
  (pc = "tested" /\ params.min_contig_neighbors \in 1..16)
    => (tested.chk <=> HasCircularRun(TestedTags, params.min_contig_neighbors))

\* a run that exists only across the wrap from position 16 to position 1
C5_Witness ==
  /\ pc = "tested" /\ tested.chk
  /\ params.min_contig_neighbors \in 2..15
  /\ RingPuts >= 2
  /\ \A start \in 0..(16 - params.min_contig_neighbors) :
       \E k \in 1..params.min_contig_neighbors :
         TestedTags[start + k] # TestedTags[start + 1]
            \/ TestedTags[start + k] = "InBounds"

====
